---- MODULE Spec2Model ----
(***************************************************************************)
(* A model of floret (src/src/floret/__init__.py): the functions that      *)
(* build a tilt series and reorder it.  Every function of the module is a  *)
(* pure function; the state is one call made on the library (which         *)
(* function, with which arguments) and what it returned or raised.         *)
(*                                                                         *)
(* Numbers.  Angles are rationals: an array of angles is a record          *)
(* [den, nums] standing for nums[i] / den degrees.  The arguments of the   *)
(* angle generator are numerators over Den.  Positions are numerators over *)
(* nhelix.  All arithmetic is exact; the rounding of IEEE doubles is not   *)
(* part of the model.                                                      *)
(***************************************************************************)
EXTENDS Integers, Sequences, FiniteSets, TLC

VARIABLES fn, args, ret

vars == <<fn, args, ret>>

-----------------------------------------------------------------------------
(* Bounds of the model *)

\* longest array of arbitrary elements handed to shuffle_array
MaxLen == 5
\* longest index array np.arange(N) handed to the reordering functions
MaxN == 12
\* largest batch size, number of spirals / swings
MaxStride == 6
\* largest symmetry order
MaxSym == 4
\* largest nhelix
MaxHelix == 3
\* largest normalised position
MaxPos == 2
\* denominator of the angle arguments (Den = 2: half degrees)
Den == 2

-----------------------------------------------------------------------------
(* Python and numpy primitives *)

Ok(v) == [ok |-> TRUE, err |-> "", val |-> v]
Err(e) == [ok |-> FALSE, err |-> e, val |-> <<>>]

Some(v) == [some |-> TRUE, v |-> v]
None == [some |-> FALSE, v |-> 0]

Min(a, b) == IF a <= b THEN a ELSE b
Max(a, b) == IF a >= b THEN a ELSE b
Abs(a) == IF a < 0 THEN -a ELSE a

\* np.floor(a / b) and np.ceil(a / b) for b # 0
FloorDiv(a, b) == IF b > 0 THEN a \div b ELSE (-a) \div (-b)
CeilDiv(a, b) == -FloorDiv(-a, b)

RECURSIVE Pow2(_)
Pow2(i) == IF i <= 0 THEN 1 ELSE 2 * Pow2(i - 1)

\* v is evaluated once and F is applied to its value: a statement
\* "name = v" of the code followed by the statements F that use the name
With(v, F(_)) == CHOOSE r \in {F(x) : x \in {v}} : TRUE

\* x[lo:hi] with 0 <= lo, 0-based, end exclusive, clamped to the array
Slice(x, lo, hi) == SubSeq(x, Min(lo, Len(x)) + 1, Min(hi, Len(x)))

\* np.flip(x)
Flip(x) == With(x, LAMBDA v : [i \in 1..Len(v) |-> v[Len(v) + 1 - i]])

\* np.concatenate(xs)
RECURSIVE ConcatenateFrom(_, _)
ConcatenateFrom(xs, i) ==
    IF i > Len(xs) THEN <<>> ELSE xs[i] \o ConcatenateFrom(xs, i + 1)

Concatenate(xs) == With(xs, LAMBDA v : ConcatenateFrom(v, 1))

\* np.arange(start, stop, step) for step > 0
Arange(start, stop, step) ==
    [i \in 1..Max(0, CeilDiv(stop - start, step)) |-> start + (i - 1) * step]

\* np.arange(N)
ArangeN(N) == Arange(0, N, 1)

\* x[i::n]
Stride(x, i, n) ==
    With(x, LAMBDA v :
        [k \in 1..Max(0, CeilDiv(Len(v) - i, n)) |-> v[i + (k - 1) * n + 1]])

\* a split that gives the extra element to the second section
ArraySplit2ExtraLast(x) ==
    LET each == Len(x) \div 2
    IN  <<Slice(x, 0, each), Slice(x, each, Len(x))>>

\* np.array_split(x, 2): the first of the two sections takes the extra element
ArraySplit2(x) ==
    LET each == Len(x) \div 2
        extras == Len(x) % 2
    IN  <<Slice(x, 0, each + extras), Slice(x, each + extras, Len(x))>>

\* np.array_split(x, indices): cut x at the given indices
ArraySplitAt(x, indices) ==
    With(x, LAMBDA v :
    With(<<0>> \o indices \o <<Len(v)>>, LAMBDA div :
        [i \in 1..(Len(div) - 1) |-> Slice(v, div[i], div[i + 1])]))

\* zip(a, b): stops at the shorter side
ZipShortest(a, b) ==
    [i \in 1..Min(Len(a), Len(b)) |-> <<Some(a[i]), Some(b[i])>>]

\* itertools.zip_longest(a, b), the missing side filled with None
ZipLongest(a, b) ==
    [i \in 1..Max(Len(a), Len(b)) |->
        << IF i <= Len(a) THEN Some(a[i]) ELSE None,
           IF i <= Len(b) THEN Some(b[i]) ELSE None >>]

\* [cc for aa, bb in pairs for cc in [aa, bb] if cc is not None]
Interleave(pairs) ==
    With(pairs, LAMBDA ps :
        Concatenate([i \in 1..Len(ps) |->
            (IF ps[i][1].some THEN <<ps[i][1].v>> ELSE <<>>)
            \o (IF ps[i][2].some THEN <<ps[i][2].v>> ELSE <<>>)]))

-----------------------------------------------------------------------------
(* Sorting *)

\* the ranks of a sort that puts equal keys in reverse order
KeyRankTiesReversed(order, key) ==
    [i \in 1..Len(order) |->
        Cardinality({j \in 1..Len(order) :
                        \/ key[order[j]] < key[order[i]]
                        \/ key[order[j]] = key[order[i]] /\ j > i})]

\* sorted(order, key): Python's sort is stable, so the place of an element
\* is the number of elements with a smaller key, or with the same key and
\* an earlier place in the input
KeyRank(order, key) ==
    [i \in 1..Len(order) |->
        Cardinality({j \in 1..Len(order) :
                        \/ key[order[j]] < key[order[i]]
                        \/ key[order[j]] = key[order[i]] /\ j < i})]

PlaceByRank(order, rank) ==
    [p \in 1..Len(order) |-> order[CHOOSE i \in 1..Len(order) : rank[i] = p - 1]]

SortedByKey(order, key) ==
    With(order, LAMBDA o :
    With(key, LAMBDA k :
    With(KeyRank(o, k), LAMBDA rank : PlaceByRank(o, rank))))

\* np.sort(x)
Sort(x) == With(x, LAMBDA v : SortedByKey(v, [e \in {v[i] : i \in DOMAIN v} |-> e]))

-----------------------------------------------------------------------------
(* generate_initial_angles *)

\* the limits of the asserts, in degrees
TiltMin == -90
TiltMax == 90

\* x.min(), x.max() of a non-empty array
ArrayMin(x) == CHOOSE v \in {x[i] : i \in DOMAIN x} : \A i \in DOMAIN x : v <= x[i]
ArrayMax(x) == CHOOSE v \in {x[i] : i \in DOMAIN x} : \A i \in DOMAIN x : v >= x[i]

\* a range that is floored on both sides
StepRangeFloored(tilt_angle_zero, max_tilt, tilt_angle_step) ==
    << tilt_angle_zero - tilt_angle_step * FloorDiv(max_tilt, tilt_angle_step),
       tilt_angle_zero + tilt_angle_step * FloorDiv(max_tilt, tilt_angle_step) >>

\* tilt_angle_min and tilt_angle_max of the step mode, around the zero tilt
StepRange(tilt_angle_zero, max_tilt, tilt_angle_step) ==
    << tilt_angle_zero - tilt_angle_step * FloorDiv(max_tilt, tilt_angle_step),
       tilt_angle_zero + tilt_angle_step * CeilDiv(max_tilt, tilt_angle_step) >>

\* a grid that takes tilt_angle_max in when the step lands on it
SortedAnglesInclusive(tilt_angle_min, tilt_angle_max, tilt_angle_step) ==
    Sort([i \in 1..(FloorDiv(tilt_angle_max - tilt_angle_min, tilt_angle_step) + 1) |->
             tilt_angle_min + (i - 1) * tilt_angle_step])

\* np.sort(np.arange(tilt_angle_min, tilt_angle_max, tilt_angle_step))
SortedAngles(tilt_angle_min, tilt_angle_max, tilt_angle_step) ==
    Sort(Arange(tilt_angle_min, tilt_angle_max, tilt_angle_step))

\* The arguments are numerators over Den; tilt_angle_step and num_tilt_angles
\* are Some(v) or None.  The result is [den, nums]: in step mode den = Den, in
\* count mode the step (max - min) / num is exact over den = Den * |num|.
generate_initial_angles(tilt_angle_zero, tilt_angle_min, tilt_angle_max, tilt_angle_step, num_tilt_angles) ==
    IF ~(tilt_angle_min <= tilt_angle_zero) THEN Err("AssertionError")
    ELSE IF ~(tilt_angle_zero <= tilt_angle_max) THEN Err("AssertionError")
    ELSE IF ~(tilt_angle_min >= TiltMin * Den) THEN Err("AssertionError")
    ELSE IF ~(tilt_angle_max <= TiltMax * Den) THEN Err("AssertionError")
    ELSE IF ~tilt_angle_step.some /\ ~num_tilt_angles.some THEN Err("RuntimeError")
    ELSE IF tilt_angle_step.some /\ num_tilt_angles.some THEN Err("RuntimeError")
    ELSE IF (IF tilt_angle_step.some THEN tilt_angle_step.v ELSE num_tilt_angles.v) = 0
         THEN Err("ZeroDivisionError")
    ELSE LET s == tilt_angle_step.v
             k == num_tilt_angles.v
             max_tilt == Min(tilt_angle_zero - tilt_angle_min,
                             tilt_angle_max - tilt_angle_zero)
             den == IF tilt_angle_step.some THEN Den ELSE Den * Abs(k)
             lo == IF tilt_angle_step.some
                   THEN StepRange(tilt_angle_zero, max_tilt, s)[1]
                   ELSE tilt_angle_min * Abs(k)
             hi == IF tilt_angle_step.some
                   THEN StepRange(tilt_angle_zero, max_tilt, s)[2]
                   ELSE tilt_angle_max * Abs(k)
             step == IF tilt_angle_step.some THEN s
                     ELSE IF k > 0 THEN tilt_angle_max - tilt_angle_min
                     ELSE -(tilt_angle_max - tilt_angle_min)
         IN  IF ~(lo < hi) THEN Err("AssertionError")
             ELSE IF ~(step > 0) THEN Err("AssertionError")
             ELSE With(SortedAngles(lo, hi, step), LAMBDA angles :
                      IF angles = <<>> THEN Err("ValueError")
                      ELSE IF ~(ArrayMin(angles) >= TiltMin * den) THEN Err("AssertionError")
                      ELSE IF ~(ArrayMax(angles) < TiltMax * den)
                           THEN Err("AssertionError")
                      ELSE Ok([den |-> den, nums |-> angles]))

-----------------------------------------------------------------------------
(* shuffle_array *)

shuffle_array(x, n) ==
    IF ~(n > 0) THEN Err("AssertionError")
    ELSE IF ~(n <= Len(x) \div 2) THEN Err("AssertionError")
    ELSE With(ArraySplit2(x), LAMBDA ab :
         With(ArraySplitAt(ab[1], Arange(n, Len(ab[1]), n)), LAMBDA a :
         With(ArraySplitAt(Flip(ab[2]), Arange(n, Len(ab[2]), n)), LAMBDA b :
         With(Concatenate(Interleave(ZipLongest(a, b))), LAMBDA c :
             IF Len(c) # Len(x) THEN Err("AssertionError") ELSE Ok(c)))))

-----------------------------------------------------------------------------
(* generate_dose_symmetric_scan *)

\* key=lambda x: abs(angles[x] - tilt_angle_zero), as a function of the index x
DeviationKey(angles, tilt_angle_zero) ==
    [x \in 0..(Len(angles) - 1) |-> Abs(angles[x + 1] - tilt_angle_zero)]

\* a loop that shuffles once more: for i in range(i, symmetry)
RECURSIVE ShuffleLoopOnceMore(_, _, _)
ShuffleLoopOnceMore(order, i, symmetry) ==
    IF i >= symmetry THEN Ok(order)
    ELSE With(shuffle_array(order, Pow2(i)), LAMBDA r :
             IF r.ok THEN ShuffleLoopOnceMore(r.val, i + 1, symmetry) ELSE r)

\* for i in range(i, symmetry - 1): order = shuffle_array(order, 2**i)
RECURSIVE ShuffleLoop(_, _, _)
ShuffleLoop(order, i, symmetry) ==
    IF i >= symmetry - 1 THEN Ok(order)
    ELSE With(shuffle_array(order, Pow2(i)), LAMBDA r :
             IF r.ok THEN ShuffleLoop(r.val, i + 1, symmetry) ELSE r)

generate_dose_symmetric_scan(angles, symmetry, tilt_angle_zero) ==
    With(ArangeN(Len(angles)), LAMBDA order :
        IF symmetry > 0
        THEN With(SortedByKey(order, DeviationKey(angles, tilt_angle_zero)),
                  LAMBDA sorted : ShuffleLoop(sorted, 0, symmetry))
        ELSE Ok(order))

-----------------------------------------------------------------------------
(* generate_spiral_scan, generate_swinging_scan *)

\* [order[i::n] for i in range(1, n + 1)]
SplitsFromOne(order, n) == [k \in 1..n |-> Stride(order, k, n)]

\* [order[i::n] for i in range(n)]
Splits(order, n) == [k \in 1..n |-> Stride(order, k - 1, n)]

generate_spiral_scan(angles, n) ==
    With(ArangeN(Len(angles)), LAMBDA order :
        IF n > 1 THEN Ok(Concatenate(Splits(order, n))) ELSE Ok(order))

\* the odd series taken forward like the even ones
flip_or_not_never(x, i) ==
    IF i % 2 = 0 THEN x[(i \div 2) + 1]
    ELSE x[(Len(x) - (i \div 2) - 1) + 1]

flip_or_not(x, i) ==
    IF i % 2 = 0 THEN x[(i \div 2) + 1]
    ELSE Flip(x[(Len(x) - (i \div 2) - 1) + 1])

generate_swinging_scan(angles, n) ==
    With(ArangeN(Len(angles)), LAMBDA order :
        IF n > 1
        THEN With(Splits(order, n), LAMBDA splits :
                 Ok(Concatenate([k \in 1..n |-> flip_or_not(splits, k - 1)])))
        ELSE Ok(order))

-----------------------------------------------------------------------------
(* generate_initial_positions *)

\* range(nhelix): a last group that is not cut short
HelixGroupWhole(nhelix, nangles, j) == ArangeN(nhelix)

\* range(min(nangles - j, nhelix)): the numerators i of the positions i / nhelix
HelixGroup(nhelix, nangles, j) == ArangeN(Min(nangles - j, nhelix))

generate_initial_positions(nhelix, nangles) ==
    IF ~(nhelix > 0) THEN Err("AssertionError")
    ELSE IF ~(nangles > 0) THEN Err("AssertionError")
    ELSE With(Arange(0, nangles, nhelix), LAMBDA js :
             Ok([den |-> nhelix,
                 nums |-> Concatenate([k \in 1..Len(js) |->
                                          HelixGroup(nhelix, nangles, js[k])])]))

-----------------------------------------------------------------------------
(* generate_shifted_positions *)

\* A 2-D array is the sequence of its rows.
\* positions is [den, nums]; positions + p adds p * den to every numerator.
generate_shifted_positions(angles, positions, position_min, position_max) ==
    IF ~(position_max - position_min > 0) THEN Err("AssertionError")
    ELSE With(Arange(position_min, position_max, 1), LAMBDA shifts :
         With([k \in 1..Len(shifts) |->
                  [i \in 1..Len(positions.nums) |->
                      positions.nums[i] + shifts[k] * positions.den]], LAMBDA rows :
         With([k \in 1..Len(rows) |-> angles], LAMBDA tiled :
             IF Len(angles) # Len(positions.nums) THEN Err("AssertionError")
             ELSE Ok([angles |-> tiled, positions |-> rows]))))

-----------------------------------------------------------------------------
(* generate_final_order *)

\* m.T of a 2-D array with at least one row
Transpose(m) ==
    With(m, LAMBDA v : [c \in 1..Len(v[1]) |-> [r \in 1..Len(v) |-> v[r][c]]])

\* m.flatten(), row-major
Flatten(m) == Concatenate(m)

\* m[:, i::2]
Columns(m, i) == [r \in 1..Len(m) |-> Stride(m[r], i, 2)]

\* the even then the odd columns row by row rather than over the whole array
SkipAdjacentWithinRows(m) ==
    With(m, LAMBDA v : Flatten([r \in 1..Len(v) |-> Stride(v[r], 0, 2) \o Stride(v[r], 1, 2)]))

\* np.concatenate([m[:, i::2].flatten() for i in range(2)])
SkipAdjacent(m) ==
    With(m, LAMBDA v : Flatten(Columns(v, 0)) \o Flatten(Columns(v, 1)))

\* interleaving taken whatever order_by is
FinalOrderOfInterleaveAlways(m, order_by, interleave_positions) ==
    IF interleave_positions
    THEN SkipAdjacent(IF order_by = "angle" THEN Transpose(m) ELSE m)
    ELSE Flatten(IF order_by = "angle" THEN Transpose(m) ELSE m)

\* One of the two parallel arrays through generate_final_order: the code
\* applies the same steps to angles and to positions.
FinalOrderOf(m, order_by, interleave_positions) ==
    IF order_by = "angle"
    THEN IF interleave_positions THEN SkipAdjacent(Transpose(m))
         ELSE Flatten(Transpose(m))
    ELSE Flatten(m)

\* the positions flattened as they are while the angles are reordered
generate_final_order_angles_only(angles, positions, order_by, interleave_positions) ==
    Ok([angles |-> FinalOrderOf(angles, order_by, interleave_positions),
        positions |-> Flatten(positions)])

generate_final_order(angles, positions, order_by, interleave_positions) ==
    Ok([angles |-> FinalOrderOf(angles, order_by, interleave_positions),
        positions |-> FinalOrderOf(positions, order_by, interleave_positions)])

-----------------------------------------------------------------------------
(* generate_scan *)

get_stepnum(N, symmetry, stepnum) ==
    IF stepnum = 0 /\ symmetry > 0 THEN N \div Pow2(symmetry - 1) ELSE stepnum

Modes == {"symmetric", "spiral", "swinging"}

\* x[order]
Take(x, order) == [i \in 1..Len(order) |-> x[order[i] + 1]]

\* the reordering of the chosen mode
ScanOrder(angles, mode, symmetry, stepnum) ==
    IF mode = "symmetric"
    THEN generate_dose_symmetric_scan(angles, symmetry,
                                      angles[(Len(angles) \div 2) + 1])
    ELSE IF mode = "spiral" THEN generate_spiral_scan(angles, stepnum)
    ELSE IF mode = "swinging" THEN generate_swinging_scan(angles, stepnum)
    ELSE Err("RuntimeError")

\* The result is (positions, angles), each flat, with the denominators of the
\* two kinds of numbers beside them.
generate_scan(tilt_angle_zero, tilt_angle_min, tilt_angle_max, tilt_angle_step, num_tilt_angles, mode, symmetry, stepnum, nhelix, position_min, position_max, order_by, interleave_positions) ==
    IF ~(symmetry >= 0) THEN Err("AssertionError")
    ELSE IF ~(mode \in Modes) THEN Err("AssertionError")
    ELSE IF ~(nhelix >= 1) THEN Err("AssertionError")
    ELSE IF ~((position_max - position_min) >= 1) THEN Err("AssertionError")
    ELSE
    With(generate_initial_angles(tilt_angle_zero, tilt_angle_min, tilt_angle_max,
                                 tilt_angle_step, num_tilt_angles), LAMBDA initial :
    IF ~initial.ok THEN initial ELSE
    With(initial.val.nums, LAMBDA angles :
    With(generate_initial_positions(nhelix, Len(angles)), LAMBDA positions :
    IF ~positions.ok THEN positions ELSE
    With(ScanOrder(angles, mode, symmetry,
                   get_stepnum(Len(angles), symmetry, stepnum)), LAMBDA order :
    IF ~order.ok THEN order ELSE
    With(generate_shifted_positions(
             Take(angles, order.val),
             [den |-> positions.val.den,
              nums |-> Take(positions.val.nums, order.val)],
             position_min, position_max), LAMBDA shifted :
    IF ~shifted.ok THEN shifted ELSE
    With(generate_final_order(shifted.val.angles, shifted.val.positions,
                              order_by, interleave_positions), LAMBDA final :
    Ok([positions |-> final.val.positions, pden |-> positions.val.den,
        angles |-> final.val.angles, aden |-> initial.val.den])))))))

-----------------------------------------------------------------------------
(* The calls *)

Elems == 0..2

RECURSIVE SeqsOfLen(_)
SeqsOfLen(k) ==
    IF k = 0 THEN {<<>>}
    ELSE {Append(s, e) : s \in SeqsOfLen(k - 1), e \in Elems}

\* arrays for shuffle_array: every short array over Elems (with repeated
\* elements) and the index arrays np.arange(N)
ArrayInputs == UNION {SeqsOfLen(k) : k \in 0..MaxLen} \cup {ArangeN(N) : N \in 0..MaxN}

\* angle arrays for the reordering functions: evenly spaced grids, index
\* arrays, and short arrays in any order with repeated values
GridInputs == {Arange(lo, hi, d) : lo \in {-6, -3, 0}, hi \in {1, 4, 7}, d \in {1, 2, 3}}
AngleArrayInputs ==
    GridInputs \cup {ArangeN(N) : N \in 0..MaxN} \cup UNION {SeqsOfLen(k) : k \in 0..3}
RefInputs == {-3, 0, 1, 2}

\* arguments of generate_initial_angles, numerators over Den
AngleArgs == {-91 * Den, -90 * Den, -10 * Den, -9, 0, 30 * Den, 90 * Den, 91 * Den}
StepArgs == {-9, 0, 8, 9, 25, 60 * Den, 100 * Den}
NumArgs == {-2, 0, 1, 3, 40, 41}
StepNumArgs ==
    {<<None, None>>, <<Some(9), Some(40)>>}
    \cup {<<Some(s), None>> : s \in StepArgs}
    \cup {<<None, Some(k)>> : k \in NumArgs}

\* arguments of generate_scan: <<zero, min, max, step, num>>, numerators over Den
ScanAngleArgs ==
    { <<0, -90 * Den, 90 * Den, Some(9), None>>,
      <<-10 * Den, -90 * Den, 90 * Den, Some(9), None>>,
      <<0, -90 * Den, 90 * Den, Some(60 * Den), None>>,
      <<0, -90 * Den, 90 * Den, Some(100 * Den), None>>,
      <<0, 0, 90 * Den, Some(30 * Den), None>>,
      <<20 * Den, -40 * Den, 60 * Den, Some(10 * Den), None>>,
      <<-10 * Den, -90 * Den, 90 * Den, None, Some(40)>>,
      <<0, 0, 90 * Den, None, Some(4)>>,
      <<0, -90 * Den, 90 * Den, None, Some(5)>>,
      <<10 * Den, -30 * Den, 30 * Den, None, Some(1)>>,
      <<0, -90 * Den, 90 * Den, None, None>>,
      <<0, -90 * Den, 90 * Den, Some(9), Some(40)>> }
ScanStepnums == {0, 1, 3}
ScanPositions == {<<0, 1>>, <<-1, MaxPos>>}
OrderBys == {"angle", "position", "diagonal"}

\* the arguments that generate_scan itself rejects, each with the others valid
ScanRejected ==
    { [mode |-> "raster", symmetry |-> 1, nhelix |-> 1, pos |-> <<0, 1>>],
      [mode |-> "symmetric", symmetry |-> -1, nhelix |-> 1, pos |-> <<0, 1>>],
      [mode |-> "spiral", symmetry |-> 0, nhelix |-> 0, pos |-> <<0, 1>>],
      [mode |-> "swinging", symmetry |-> 0, nhelix |-> 1, pos |-> <<1, 1>>] }
ScanArgs ==
    [mode : Modes, symmetry : 0..MaxSym, nhelix : {1, 2}, pos : ScanPositions]
    \cup ScanRejected

Init ==
    /\ fn = "none"
    /\ args = [x |-> <<>>]
    /\ ret = Ok(<<>>)

ShuffleArray ==
    /\ fn = "none"
    /\ \E x \in ArrayInputs, n \in 0..MaxStride :
        /\ fn' = "shuffle_array"
        /\ args' = [x |-> x, n |-> n]
        /\ ret' = shuffle_array(x, n)

DoseSymmetricScan ==
    /\ fn = "none"
    /\ \E angles \in AngleArrayInputs, symmetry \in (-1)..MaxSym, zero \in RefInputs :
        /\ fn' = "generate_dose_symmetric_scan"
        /\ args' = [angles |-> angles, symmetry |-> symmetry, tilt_angle_zero |-> zero]
        /\ ret' = generate_dose_symmetric_scan(angles, symmetry, zero)

SpiralScan ==
    /\ fn = "none"
    /\ \E N \in 0..MaxN, n \in (-1)..MaxStride :
        /\ fn' = "generate_spiral_scan"
        /\ args' = [angles |-> ArangeN(N), n |-> n]
        /\ ret' = generate_spiral_scan(ArangeN(N), n)

SwingingScan ==
    /\ fn = "none"
    /\ \E N \in 0..MaxN, n \in (-1)..MaxStride :
        /\ fn' = "generate_swinging_scan"
        /\ args' = [angles |-> ArangeN(N), n |-> n]
        /\ ret' = generate_swinging_scan(ArangeN(N), n)

InitialPositions ==
    /\ fn = "none"
    /\ \E nhelix \in 0..MaxHelix, nangles \in 0..MaxN :
        /\ fn' = "generate_initial_positions"
        /\ args' = [nhelix |-> nhelix, nangles |-> nangles]
        /\ ret' = generate_initial_positions(nhelix, nangles)

InitialAngles ==
    /\ fn = "none"
    /\ \E zero \in AngleArgs, min \in AngleArgs, max \in AngleArgs, sn \in StepNumArgs :
        /\ fn' = "generate_initial_angles"
        /\ args' = [tilt_angle_zero |-> zero, tilt_angle_min |-> min,
                    tilt_angle_max |-> max, tilt_angle_step |-> sn[1],
                    num_tilt_angles |-> sn[2]]
        /\ ret' = generate_initial_angles(zero, min, max, sn[1], sn[2])

ShiftedPositions ==
    /\ fn = "none"
    /\ \E N \in 1..4, nhelix \in 1..MaxHelix, pmin \in (-1)..MaxPos, pmax \in (-1)..MaxPos :
        LET positions == generate_initial_positions(nhelix, N).val
        IN  /\ fn' = "generate_shifted_positions"
            /\ args' = [angles |-> ArangeN(N), positions |-> positions,
                        position_min |-> pmin, position_max |-> pmax]
            /\ ret' = generate_shifted_positions(ArangeN(N), positions, pmin, pmax)

FinalOrder ==
    /\ fn = "none"
    /\ \E N \in 1..4, nhelix \in 1..MaxHelix, pmin \in (-1)..MaxPos, pmax \in (-1)..(MaxPos + 2),
       order_by \in OrderBys, interleave \in BOOLEAN :
        LET positions == generate_initial_positions(nhelix, N).val
            shifted == generate_shifted_positions(ArangeN(N), positions, pmin, pmax)
        IN  /\ shifted.ok
            /\ fn' = "generate_final_order"
            /\ args' = [angles |-> shifted.val.angles, positions |-> shifted.val.positions,
                        order_by |-> order_by, interleave_positions |-> interleave]
            /\ ret' = generate_final_order(shifted.val.angles, shifted.val.positions,
                                           order_by, interleave)

GenerateScan ==
    /\ fn = "none"
    /\ \E a \in ScanAngleArgs, c \in ScanArgs, stepnum \in ScanStepnums,
       order_by \in OrderBys, interleave \in BOOLEAN :
        /\ fn' = "generate_scan"
        /\ args' = [tilt_angle_zero |-> a[1], tilt_angle_min |-> a[2],
                    tilt_angle_max |-> a[3], tilt_angle_step |-> a[4],
                    num_tilt_angles |-> a[5], mode |-> c.mode,
                    symmetry |-> c.symmetry, stepnum |-> stepnum,
                    nhelix |-> c.nhelix, position_min |-> c.pos[1],
                    position_max |-> c.pos[2], order_by |-> order_by,
                    interleave_positions |-> interleave]
        /\ ret' = generate_scan(a[1], a[2], a[3], a[4], a[5], c.mode, c.symmetry,
                                stepnum, c.nhelix, c.pos[1], c.pos[2], order_by,
                                interleave)

Next ==
    \/ ShuffleArray
    \/ DoseSymmetricScan
    \/ SpiralScan
    \/ SwingingScan
    \/ InitialPositions
    \/ InitialAngles
    \/ ShiftedPositions
    \/ FinalOrder
    \/ GenerateScan

Spec == Init /\ [][Next]_vars

-----------------------------------------------------------------------------
(* What the properties are stated with *)

Range(x) == {x[i] : i \in DOMAIN x}
Count(x, e) == Cardinality({i \in DOMAIN x : x[i] = e})

\* y holds every element of x exactly as often as x does
IsPermutationOf(y, x) ==
    /\ Len(y) = Len(x)
    /\ \A e \in Range(x) \cup Range(y) : Count(y, e) = Count(x, e)

\* order is a permutation of 0..N-1
IsIndexOrder(order, N) ==
    /\ Len(order) = N
    /\ \A j \in 0..(N - 1) : Count(order, j) = 1

Reversed(x) == [i \in 1..Len(x) |-> x[Len(x) - i + 1]]

\* the chunks of n of a and of b, taken in turn, a side that has run out
\* contributing nothing
RECURSIVE ChunksInTurn(_, _, _)
ChunksInTurn(a, b, n) ==
    IF a = <<>> /\ b = <<>> THEN <<>>
    ELSE LET na == Min(n, Len(a))
             nb == Min(n, Len(b))
         IN  SubSeq(a, 1, na) \o SubSeq(b, 1, nb)
             \o ChunksInTurn(SubSeq(a, na + 1, Len(a)), SubSeq(b, nb + 1, Len(b)), n)

\* the reference construction of the batch shuffle
ReferenceShuffle(x, n) ==
    LET half == (Len(x) + 1) \div 2
    IN  ChunksInTurn(SubSeq(x, 1, half), Reversed(SubSeq(x, half + 1, Len(x))), n)

ShuffleCall == fn = "shuffle_array" /\ 0 < args.n /\ 2 * args.n <= Len(args.x)

\* C1: for every x of length L and every n with 0 < n <= L/2, shuffle_array
\* returns a sequence of length L that is a permutation of x.
C1_ShufflePermutes ==
    ShuffleCall =>
        /\ ret.ok
        /\ Len(ret.val) = Len(args.x)
        /\ IsPermutationOf(ret.val, args.x)

C1_Witness ==
    /\ ShuffleCall
    /\ args.x = ArangeN(11) /\ args.n = 1
    /\ ret = Ok(<<0, 10, 1, 9, 2, 8, 3, 7, 4, 6, 5>>)

\* C2: for every x and every n with 0 < n <= L/2, shuffle_array returns the
\* reference construction: the first ceil(L/2) elements and the rest reversed,
\* cut into chunks of n and taken in turn.
C2_ShuffleIsReference ==
    ShuffleCall => ret = Ok(ReferenceShuffle(args.x, args.n))

C2_Witness ==
    /\ ShuffleCall
    /\ args.x = ArangeN(11) /\ args.n = 5
    /\ ret = Ok(<<0, 1, 2, 3, 4, 10, 9, 8, 7, 6, 5>>)

IdentityOrder(N) == [i \in 1..N |-> i - 1]

RECURSIVE TwoTo(_)
TwoTo(i) == IF i = 0 THEN 1 ELSE 2 * TwoTo(i - 1)

DoseCall ==
    /\ fn = "generate_dose_symmetric_scan"
    /\ args.symmetry >= 0
    /\ Len(args.angles) >= 1

\* the returned order is a permutation of the indices, and the angles taken
\* in that order are the angles given, each as often
DoseReturnsPermutation ==
    /\ ret.ok
    /\ IsIndexOrder(ret.val, Len(args.angles))
    /\ IsPermutationOf(Take(args.angles, ret.val), args.angles)

\* every batch size 2^0 .. 2^(symmetry-2) is within half the length
BatchesFit(symmetry, N) == symmetry <= 1 \/ TwoTo(symmetry - 2) <= N \div 2

\* C3 as stated: for every symmetry >= 0 and every N >= 1 angles,
\* generate_dose_symmetric_scan returns a permutation of 0..N-1, however
\* large the batch size 2^(symmetry-2) is compared with N.
C3_PermutationForEverySymmetry == DoseCall => DoseReturnsPermutation

\* C3 amended: for every symmetry >= 0 and N >= 1 the call returns a
\* permutation of 0..N-1 when symmetry <= 1 or 2^(symmetry-2) <= N div 2,
\* and otherwise fails on the batch size bound of shuffle_array.
C3_PermutationWhenBatchesFit ==
    DoseCall =>
        IF BatchesFit(args.symmetry, Len(args.angles))
        THEN DoseReturnsPermutation
        ELSE ~ret.ok /\ ret.err = "AssertionError"

C3_Witness ==
    /\ DoseCall
    /\ args.symmetry = 3 /\ args.angles = ArangeN(12) /\ args.tilt_angle_zero = 2
    /\ DoseReturnsPermutation
    /\ ret.val # IdentityOrder(12)

Deviation(i) == Abs(args.angles[i + 1] - args.tilt_angle_zero)

\* the angles are a strictly increasing grid of step D
IsGridOfStep(angles, D) ==
    /\ D > 0
    /\ \A i \in 1..(Len(angles) - 1) : angles[i + 1] - angles[i] = D

\* the angle visited at place p (from 0) of a grid of step D whose index c
\* holds the reference: pairs below and above, then the unpaired extremes
GridVisit(N, c, D, ref, p) ==
    LET pairs == Min(c, N - 1 - c)
        k == (p + 1) \div 2
    IN  IF p = 0 THEN ref
        ELSE IF p <= 2 * pairs THEN (IF p % 2 = 1 THEN ref - k * D ELSE ref + k * D)
        ELSE IF c > N - 1 - c THEN ref - (p - pairs) * D
        ELSE ref + (p - pairs) * D

\* C4: with symmetry = 1 the indices come sorted by non-decreasing absolute
\* deviation from the reference, equal deviations by increasing index; on a
\* strictly increasing grid of step D that holds the reference the angles
\* visited are ref, ref-D, ref+D, ref-2D, ref+2D, ... and the unpaired
\* extreme angles come last.
C4_SymmetryOneOrder ==
    (fn = "generate_dose_symmetric_scan" /\ args.symmetry = 1) =>
        LET N == Len(args.angles)
        IN  /\ ret.ok
            /\ IsIndexOrder(ret.val, N)
            /\ \A p, q \in 1..N :
                  p < q =>
                      \/ Deviation(ret.val[p]) < Deviation(ret.val[q])
                      \/ /\ Deviation(ret.val[p]) = Deviation(ret.val[q])
                         /\ ret.val[p] < ret.val[q]
            /\ \A D \in 1..3, c \in 0..(N - 1) :
                  (IsGridOfStep(args.angles, D) /\ args.angles[c + 1] = args.tilt_angle_zero)
                  => \A p \in 0..(N - 1) :
                        args.angles[ret.val[p + 1] + 1]
                            = GridVisit(N, c, D, args.tilt_angle_zero, p)

C4_Witness ==
    /\ fn = "generate_dose_symmetric_scan"
    /\ args.symmetry = 1 /\ args.tilt_angle_zero = 0
    /\ args.angles = <<-6, -3, 0, 3>>
    /\ ret = Ok(<<2, 1, 3, 0>>)

\* C5: in mode symmetric with symmetry >= 1, whenever generate_scan succeeds
\* the first angle returned is the zero tilt: the generated angle nearest to
\* tilt_angle_zero, and tilt_angle_zero itself in step mode; for every
\* symmetry and for step and count mode alike.
C5_FirstAngleIsZeroTilt ==
    (fn = "generate_scan" /\ args.mode = "symmetric" /\ args.symmetry >= 1 /\ ret.ok) =>
        LET zero == args.tilt_angle_zero * (ret.val.aden \div Den)
            first == ret.val.angles[1]
        IN  /\ \A i \in DOMAIN ret.val.angles :
                  Abs(first - zero) <= Abs(ret.val.angles[i] - zero)
            /\ args.tilt_angle_step.some => first = zero

\* the number of indices below N in the slice of offset r and stride n
SliceSize(N, n, r) == Cardinality({j \in 0..(N - 1) : j % n = r})

\* the place (from 0) of index j when the n slices are laid end to end
SpiralPlace(N, n, j) ==
    Cardinality({i \in 0..(N - 1) : i % n < j % n})
    + Cardinality({i \in 0..(j - 1) : i % n = j % n})

\* C6: generate_spiral_scan returns the identity order when n <= 1 and for
\* n > 1 the n stride-n slices of offsets 0..n-1 end to end, each increasing;
\* the result is a permutation of 0..N-1, and when n divides N index j is at
\* place (j mod n) * (N / n) + (j div n).
C6_SpiralOrder ==
    fn = "generate_spiral_scan" =>
        LET N == Len(args.angles)
            n == args.n
        IN  /\ ret.ok
            /\ IsIndexOrder(ret.val, N)
            /\ n <= 1 => ret.val = IdentityOrder(N)
            /\ n > 1 => \A j \in 0..(N - 1) : ret.val[SpiralPlace(N, n, j) + 1] = j
            /\ (n > 1 /\ N % n = 0) =>
                  \A j \in 0..(N - 1) : ret.val[(j % n) * (N \div n) + (j \div n) + 1] = j

C6_Witness ==
    /\ fn = "generate_spiral_scan"
    /\ Len(args.angles) = 12 /\ args.n = 4
    /\ ret = Ok(<<0, 4, 8, 1, 5, 9, 2, 6, 10, 3, 7, 11>>)

\* the slice of offset r and stride n of 0..N-1, increasing
SliceOf(N, n, r) == [k \in 1..SliceSize(N, n, r) |-> r + (k - 1) * n]

SwingOffset(n, i) == IF i % 2 = 0 THEN i \div 2 ELSE n - (i \div 2) - 1

RECURSIVE SwingFrom(_, _, _)
SwingFrom(N, n, i) ==
    IF i >= n THEN <<>>
    ELSE (IF i % 2 = 0 THEN SliceOf(N, n, SwingOffset(n, i))
          ELSE Reversed(SliceOf(N, n, SwingOffset(n, i))))
         \o SwingFrom(N, n, i + 1)

\* C7: generate_swinging_scan returns the identity order when n <= 1 and for
\* n > 1, for i = 0..n-1 in turn, the slice of offset i/2 forward when i is
\* even and the slice of offset n - floor(i/2) - 1 reversed when i is odd;
\* each of the n slices is used exactly once and the result is a permutation
\* of 0..N-1.
C7_SwingingOrder ==
    fn = "generate_swinging_scan" =>
        LET N == Len(args.angles)
            n == args.n
        IN  /\ ret.ok
            /\ n <= 1 => ret.val = IdentityOrder(N)
            /\ n > 1 =>
                  /\ ret.val = SwingFrom(N, n, 0)
                  /\ {SwingOffset(n, i) : i \in 0..(n - 1)} = 0..(n - 1)
                  /\ IsIndexOrder(ret.val, N)

C7_Witness ==
    /\ fn = "generate_swinging_scan"
    /\ Len(args.angles) = 12 /\ args.n = 4
    /\ ret = Ok(<<0, 4, 8, 11, 7, 3, 1, 5, 9, 10, 6, 2>>)

\* -90 <= min <= zero <= max <= 90 and exactly one of a step > 0, a count > 0
AnglesCall ==
    /\ fn = "generate_initial_angles"
    /\ TiltMin * Den <= args.tilt_angle_min
    /\ args.tilt_angle_min <= args.tilt_angle_zero
    /\ args.tilt_angle_zero <= args.tilt_angle_max
    /\ args.tilt_angle_max <= TiltMax * Den
    /\ \/ args.tilt_angle_step.some /\ ~args.num_tilt_angles.some
          /\ args.tilt_angle_step.v > 0
       \/ args.num_tilt_angles.some /\ ~args.tilt_angle_step.some
          /\ args.num_tilt_angles.v > 0

MaxTilt ==
    Min(args.tilt_angle_zero - args.tilt_angle_min,
        args.tilt_angle_max - args.tilt_angle_zero)

\* step mode with a margin m > 0 on both sides of the zero tilt
StepCall == AnglesCall /\ args.tilt_angle_step.some /\ MaxTilt > 0

\* z - d is returned for the returned angle a = z + d
HasMirror(a) == (2 * args.tilt_angle_zero - a) \in Range(ret.val.nums)

C10_HelixPositions ==
    (fn = "generate_initial_positions" /\ args.nhelix >= 1 /\ args.nangles >= 1) =>
        /\ ret.ok
        /\ ret.val.den = args.nhelix
        /\ Len(ret.val.nums) = args.nangles
        /\ \A j \in 0..(args.nangles - 1) :
              /\ ret.val.nums[j + 1] = j % args.nhelix
              /\ 0 <= ret.val.nums[j + 1] /\ ret.val.nums[j + 1] < ret.val.den

C10_Witness ==
    /\ fn = "generate_initial_positions"
    /\ args.nhelix = 3 /\ args.nangles = 11
    /\ ret = Ok([den |-> 3, nums |-> <<0, 1, 2, 0, 1, 2, 0, 1, 2, 0, 1>>])

-----------------------------------------------------------------------------
(* generate_final_order: the grids have one row per shift, one column per
   angle; entry <<s, j>> is that of shift index s and angle index j, 0-based *)

FinalOrderCall == fn = "generate_final_order"
NumShifts == Len(args.angles)
NumAngles == Len(args.angles[1])

\* the <<position, angle>> pair of the grids at shift index s, angle index j
GridPair(s, j) == <<args.positions[s + 1][j + 1], args.angles[s + 1][j + 1]>>

\* the <<position, angle>> pairs returned, in order
ReturnedPairs(r) == [k \in 1..Len(r.positions) |-> <<r.positions[k], r.angles[k]>>]

\* how many of the shift indices 0..S-1 are even, and how many odd
NumEven(S) == (S + 1) \div 2
NumOdd(S) == S \div 2

\* the k-th (0-based) of the shift indices 0..S-1 when the even ones are
\* listed before the odd ones
EvenThenOdd(S, k) == IF k < NumEven(S) THEN 2 * k ELSE 2 * (k - NumEven(S)) + 1

\* angle by angle, each angle's shifts listed even before odd
WithinBlocksOrder(S, N) ==
    [k \in 1..(S * N) |-> GridPair(EvenThenOdd(S, (k - 1) % S), (k - 1) \div S)]

\* two passes over the angles: the even shifts of every angle, then the odd
\* shifts of every angle
TwoPassOrder(S, N) ==
    [k \in 1..(S * N) |->
        IF k - 1 < N * NumEven(S)
        THEN GridPair(2 * ((k - 1) % NumEven(S)), (k - 1) \div NumEven(S))
        ELSE GridPair(2 * ((k - 1 - N * NumEven(S)) % NumOdd(S)) + 1,
                      (k - 1 - N * NumEven(S)) \div NumOdd(S))]

InterleavedCall ==
    /\ FinalOrderCall
    /\ args.order_by = "angle"
    /\ args.interleave_positions

\* C11 (as stated): with order_by = "angle" and interleave_positions true,
\* generate_final_order keeps the entries of each angle together, the angles in
\* their given order, and lists each angle's even shift indices before its odd
\* ones.
C11_InterleaveWithinBlocks ==
    InterleavedCall =>
        /\ ret.ok
        /\ ReturnedPairs(ret.val) = WithinBlocksOrder(NumShifts, NumAngles)

\* C11 (as the code has it): with order_by = "angle" and interleave_positions
\* true, generate_final_order goes over the angles twice, each time in their
\* given order: first it lists every angle's entries of even shift index
\* (ascending), then every angle's entries of odd shift index.  The entries of
\* one angle are next to each other only when there is one shift or one angle.
C11_InterleaveTwoPasses ==
    InterleavedCall =>
        /\ ret.ok
        /\ ReturnedPairs(ret.val) = TwoPassOrder(NumShifts, NumAngles)
        /\ (ReturnedPairs(ret.val) = WithinBlocksOrder(NumShifts, NumAngles))
              <=> (NumShifts = 1 \/ NumAngles = 1)

\* 3 angles, shifts 0, 1, 2: the second angle's shift 0 comes before the first
\* angle's shift 1
C11_Witness ==
    /\ InterleavedCall
    /\ args.angles = <<<<0, 1, 2>>, <<0, 1, 2>>, <<0, 1, 2>>>>
    /\ args.positions = <<<<0, 0, 0>>, <<1, 1, 1>>, <<2, 2, 2>>>>
    /\ ret.ok
    /\ ret.val.angles = <<0, 0, 1, 1, 2, 2, 0, 1, 2>>
    /\ ret.val.positions = <<0, 2, 0, 2, 0, 2, 1, 1, 1>>

\* shift by shift, every angle in the given order
ShiftMajorOrder(S, N) ==
    [k \in 1..(S * N) |-> GridPair((k - 1) \div N, (k - 1) % N)]

\* angle by angle, every shift in ascending order
AngleMajorOrder(S, N) ==
    [k \in 1..(S * N) |-> GridPair((k - 1) % S, (k - 1) \div S)]

\* C12: with order_by = "position" generate_final_order lists all the angles
\* (in their given order) for shift 0, then all for shift 1, and so on,
\* whatever interleave_positions is; with order_by = "angle" and
\* interleave_positions false it lists all the shifts (ascending) for the first
\* angle, then all for the second, and so on.
C12_FlattenOrders ==
    FinalOrderCall =>
        /\ args.order_by = "position" =>
              /\ ret.ok
              /\ ReturnedPairs(ret.val) = ShiftMajorOrder(NumShifts, NumAngles)
              /\ ret = generate_final_order(args.angles, args.positions,
                                            "position", ~args.interleave_positions)
        /\ (args.order_by = "angle" /\ ~args.interleave_positions) =>
              /\ ret.ok
              /\ ReturnedPairs(ret.val) = AngleMajorOrder(NumShifts, NumAngles)

\* 3 angles, 2 shifts, order_by = "position" with interleaving asked for
C12_Witness ==
    /\ FinalOrderCall
    /\ args.order_by = "position" /\ args.interleave_positions
    /\ args.angles = <<<<0, 1, 2>>, <<0, 1, 2>>>>
    /\ args.positions = <<<<0, 0, 0>>, <<1, 1, 1>>>>
    /\ ret.ok
    /\ ret.val.angles = <<0, 1, 2, 0, 1, 2>>
    /\ ret.val.positions = <<0, 0, 0, 1, 1, 1>>

-----------------------------------------------------------------------------
(* generate_scan *)

ScanCall == fn = "generate_scan"
OrderByChoices == {"angle", "position"}

\* C13: generate_scan fails, returning no result, whenever order_by is a
\* value outside {"angle", "position"}, as it does for a mode outside
\* {"symmetric", "spiral", "swinging"}.
C13_OrderByRejected ==
    /\ (ScanCall /\ args.order_by \notin OrderByChoices) => ~ret.ok
    /\ (ScanCall /\ args.mode \notin Modes) => ~ret.ok

\* the angles generate_scan starts from, before any reordering
GeneratedAngles ==
    generate_initial_angles(args.tilt_angle_zero, args.tilt_angle_min,
                            args.tilt_angle_max, args.tilt_angle_step,
                            args.num_tilt_angles).val

\* the integer shifts p in [position_min, position_max)
ShiftsOf == args.position_min..(args.position_max - 1)

\* the pair of original angle index j and shift p: the position
\* (j mod nhelix) / nhelix + p as a numerator over nhelix, and the angle
ExpectedPair(angles, j, p) ==
    <<(j % args.nhelix) + p * args.nhelix, angles[j + 1]>>

ExpectedPairs(angles) ==
    {ExpectedPair(angles, j, p) : j \in 0..(Len(angles) - 1), p \in ShiftsOf}

\* as many entries as pairs expected, the expected pairs all different, and
\* the entries returned being just those pairs: each is returned once
PairsExactlyOnce(angles) ==
    /\ Len(ret.val.positions) = (args.position_max - args.position_min) * Len(angles)
    /\ Len(ret.val.angles) = Len(ret.val.positions)
    /\ Cardinality(ExpectedPairs(angles)) = Len(ret.val.positions)
    /\ Range(ReturnedPairs(ret.val)) = ExpectedPairs(angles)

\* C14: whenever generate_scan succeeds with N generated angles, the two
\* returned sequences have the length (position_max - position_min) * N, and
\* the returned (position, angle) pairs are, each once, the pairs
\* ((j mod nhelix) / nhelix + p, angle_j) for every original index j and every
\* integer p in [position_min, position_max): no reordering separates an angle
\* from the position of its original index, and no pair is lost or repeated.
C14_PairsKeptTogether ==
    (ScanCall /\ ret.ok) =>
        /\ ret.val.pden = args.nhelix
        /\ ret.val.aden = GeneratedAngles.den
        /\ PairsExactlyOnce(GeneratedAngles.nums)

\* 4 angles 0, 22.5, 45, 67.5 (over 8) in spiral order 0, 67.5, 22.5, 45, on a
\* 2-helix, shifts -1, 0, 1, by angle and interleaved
C14_Witness ==
    /\ ScanCall
    /\ args.mode = "spiral" /\ args.stepnum = 3 /\ args.symmetry = 0
    /\ args.tilt_angle_min = 0 /\ args.num_tilt_angles = Some(4)
    /\ args.nhelix = 2 /\ args.position_min = -1 /\ args.position_max = 2
    /\ args.order_by = "angle" /\ args.interleave_positions
    /\ ret = Ok([positions |-> <<-2, 2, -1, 3, -1, 3, -2, 2, 0, 1, 1, 0>>,
                 pden |-> 2,
                 angles |-> <<0, 0, 540, 540, 180, 180, 360, 360, 0, 540, 180, 360>>,
                 aden |-> 8])

====
